---------------------------- MODULE Spec2Model ----------------------------
(* A model of dx (src/dx.go, the last revision of the program, lines       *)
(* 901-1370): the command-line dispatch of main, the listings ps, imgs and  *)
(* vols, the object locator examine with its pager, and the formatting      *)
(* functions they call.                                                     *)
(*                                                                          *)
(* Text is modelled in two ways.  Labels built from numbers and literals    *)
(* (durations, state labels) are TLA+ strings.  Text that the shorteners    *)
(* cut is a sequence of Unicode code points, so that the byte length that   *)
(* len(s) measures and the rune count that []rune(s) indexes stay apart.    *)
EXTENDS Integers, Sequences, FiniteSets, TLC

VARIABLES
    call,       \* the last call of a formatting function: [fn, in, out]
    pc,         \* the position of the process in main and its callees
    alloc,      \* how the toolchain allocates []rune(s): see RuneCap
    cmd,        \* the function main dispatched to: "ps", "imgs", "vols" or "x"
    tty,        \* term.IsTerminal(stdout), once read: "yes" or "no"
    volumes,    \* examine: the list of volumes
    opts,       \* allOpts, as the flags set it
    arg,        \* the argument of examine
    containers, \* ps: the sorted list of containers
    k,          \* ps: the index of the container of the current iteration
    cinfo,      \* ps: the inspection of the current container
    width,      \* ps: termwidth()
    w,          \* the tabwriter: [header, rows, cur], nothing of it printed before Flush
    found,      \* examine: the record handed to outputFound
    stdout,     \* what the process printed on standard output
    stderr,     \* what the process printed on standard error
    pagerIn,    \* what the process wrote to the pager's standard input
    trace,      \* the runtime queries, pager operations and exit, in order
    exit        \* the exit status, Running while the process runs

vars == <<call, pc, alloc, cmd, tty, volumes, opts, arg, containers, k, cinfo, width, w, found,
          stdout, stderr, pagerIn, trace, exit>>

cliVars == <<pc, alloc, cmd, tty, volumes, opts, arg, containers, k, cinfo, width, w, found,
             stdout, stderr, pagerIn, trace, exit>>

-----------------------------------------------------------------------------
(* Bounds of the model.                                                     *)

\* Durations tried around each threshold: threshold + skew half-seconds,
\* for skew in -MaxSkew..MaxSkew.
MaxSkew == 3
\* Exit codes 0..MaxExitCode and their negatives are tried by state().
MaxExitCode == 1
\* The longest list of containers the daemon returns.
MaxContainers == 2
\* The longest list of images and of volumes the daemon returns.
MaxObjects == 2
\* The most positional arguments given on the command line.
MaxPosArgs == 2
\* The most -v flags given to ps.
MaxVerbose == 2
MaxNear == 4
MaxLen == 5
MaxL == 5
MaxPorts == 3

-----------------------------------------------------------------------------
(* time.Duration and time.Time.                                             *)
(* A Duration counts nanoseconds in an int64; the model counts ticks of     *)
(* half a second, the coarsest unit that still puts a duration strictly     *)
(* between two whole seconds (float64 represents every multiple of 0.5 in   *)
(* the range exactly, so Seconds() is exact on these values).               *)

TicksPerSecond == 2

\* The saturated duration time.Time.Sub returns on overflow
\* (math.MaxInt64 nanoseconds); a sentinel, larger than every tick count
\* the model forms.
MaxDuration == 2000000000

\* int(MaxDuration.Seconds()) / year = 9223372036 / 31536000
MaxDurationYears == 292

\* Truncation toward zero, as Go's int(float64) and integer division do.
Trunc(a, b) == IF a >= 0 THEN a \div b ELSE -((-a) \div b)

\* int(duration.Seconds()) for a duration that is not saturated
Seconds(duration) == Trunc(duration, TicksPerSecond)

min == 60
hour == 60 * min
day == 24 * hour
week == 7 * day
month == 30 * day
year == 365 * day

\* The revision of lines 195-212, which kept hours up to three days.
prettyDuration_3day(duration) ==
    IF duration = MaxDuration THEN ToString(MaxDurationYears) \o "y"
    ELSE LET s == Seconds(duration) IN
         IF s < 1 THEN "now"
         ELSE IF s < min THEN ToString(s) \o "s"
         ELSE IF s < hour THEN ToString(s \div min) \o "m"
         ELSE IF s < 3 * day THEN ToString(s \div hour) \o "h"
         ELSE IF s < 2 * week THEN ToString(s \div day) \o "d"
         ELSE IF s < 2 * month THEN ToString(s \div week) \o "w"
         ELSE IF s < 2 * year THEN ToString(s \div month) \o "M"
         ELSE ToString(s \div year) \o "y"

prettyDuration(duration) ==
    IF duration = MaxDuration THEN ToString(MaxDurationYears) \o "y"
    ELSE LET s == Seconds(duration) IN
         IF s < 1 THEN "now"
         ELSE IF s < min THEN ToString(s) \o "s"
         ELSE IF s < hour THEN ToString(s \div min) \o "m"
         ELSE IF s < 2 * day THEN ToString(s \div hour) \o "h"
         ELSE IF s < 2 * week THEN ToString(s \div day) \o "d"
         ELSE IF s < 2 * month THEN ToString(s \div week) \o "w"
         ELSE IF s < 2 * year THEN ToString(s \div month) \o "M"
         ELSE ToString(s \div year) \o "y"

\* A time.Time is the number of ticks it lies before now; ZeroTime is the
\* zero value (January 1, year 1), for which IsZero() holds.
ZeroTime == -1000000000

IsZero(t) == t = ZeroTime

\* time.Since(t): now - t, saturated when the subtraction overflows, which
\* is what happens for the zero time (more than 292 years before now).
Since(t) == IF IsZero(t) THEN MaxDuration ELSE t

-----------------------------------------------------------------------------
(* state(): the label of the "up" column.                                   *)

\* A bug the guard invites: the dead check done after the created check.
state_createdFirst(st) ==
    IF ~st.Running \/ st.Restarting
    THEN IF IsZero(st.StartedAt) THEN "created"
         ELSE IF st.Dead THEN "dead"
         ELSE IF IsZero(st.FinishedAt) THEN "FinishedAt==0"
         ELSE (IF ~st.Running THEN "exit" ELSE "restart")
              \o "(" \o ToString(st.ExitCode) \o ")"
              \o prettyDuration(Since(st.FinishedAt))
    ELSE prettyDuration(Since(st.StartedAt))
         \o (IF st.Paused THEN "Paused" ELSE "")

state(st) ==
    IF ~st.Running \/ st.Restarting
    THEN IF st.Dead THEN "dead"
         ELSE IF IsZero(st.StartedAt) THEN "created"
         ELSE IF IsZero(st.FinishedAt) THEN "FinishedAt==0"
         ELSE (IF ~st.Running THEN "exit" ELSE "restart")
              \o "(" \o ToString(st.ExitCode) \o ")"
              \o prettyDuration(Since(st.FinishedAt))
    ELSE prettyDuration(Since(st.StartedAt))
         \o (IF st.Paused THEN "Paused" ELSE "")

-----------------------------------------------------------------------------
(* Text that is cut: a string is the sequence of its code points.           *)

NEWLINE == 10       \* "\n"
COLON == 58         \* ":"
ELLIPSIS == 8230    \* the rune appended by the shorteners
NLGLYPH == 9252     \* the rune that replaces a newline

\* The bytes of a rune in UTF-8; len(s) of a Go string counts these.
Utf8Len(r) == IF r < 128 THEN 1 ELSE IF r < 2048 THEN 2 ELSE IF r < 65536 THEN 3 ELSE 4

RECURSIVE ByteLen(_)
ByteLen(s) == IF s = <<>> THEN 0 ELSE Utf8Len(Head(s)) + ByteLen(Tail(s))

Rep(c, n) == [i \in 1..n |-> c]

\* Go's remainder, which takes the sign of the dividend.
Rem(a, b) == a - b * Trunc(a, b)

\* strings.ReplaceAll(s, "\n", NLGLYPH)
ReplaceNewlines(s) == [i \in 1..Len(s) |-> IF s[i] = NEWLINE THEN NLGLYPH ELSE s[i]]

\* A panic of the Go runtime, as the value of a function that did not return.
Panic == [ok |-> FALSE, s |-> <<>>]
Ok(s) == [ok |-> TRUE, s |-> s]
-----------------------------------------------------------------------------
(* []rune(s) and the slice expressions on it.                               *)
(* A slice expression a[lo:hi] is in range when 0 <= lo <= hi <= cap(a);    *)
(* hi may exceed len(a), and then the elements past len(a) are the zero     *)
(* rune the allocation was cleared to.  The capacity of a conversion's      *)
(* result is the allocator's choice: the language fixes only cap >= len.    *)

\* The malloc size classes (bytes) a rune slice of the model can fall in.
SizeClasses == {8, 16, 24, 32, 48, 64, 80, 96, 112, 128, 144, 160, 176, 192,
                208, 224, 240, 256, 288, 320, 352, 384, 416, 448, 480, 512}

\* runtime.roundupsize for the sizes of the model.
RoundUpSize(n) == CHOOSE c \in SizeClasses : c >= n /\ \A d \in SizeClasses : d >= n => c <= d

\* The stack buffer of a conversion whose result does not escape, in runes.
tmpStringBufSize == 32

\* cap([]rune(s)) for a string of n runes under the allocation the
\* toolchain chose (the variable alloc): exactly n runes, a heap block of a
\* size class, or the stack buffer (heap block when the string does not fit).
RuneCap(n) ==
    IF alloc = "exact" THEN n
    ELSE IF alloc = "stack" /\ n <= tmpStringBufSize THEN tmpStringBufSize
    ELSE IF n = 0 THEN 0
    ELSE RoundUpSize(4 * n) \div 4

\* []rune(s)[lo:hi] with the capacity cp
SliceRunes(s, lo, hi, cp) ==
    IF 0 <= lo /\ lo <= hi /\ hi <= cp
    THEN Ok([i \in 1..(hi - lo) |-> IF lo + i <= Len(s) THEN s[lo + i] ELSE 0])
    ELSE Panic

-----------------------------------------------------------------------------
(* The shorteners.                                                          *)

\* A slip: the string cut after l runes, not l - 1
shorten_keepL(s, l) ==
    IF ByteLen(s) > l
    THEN LET cut == SliceRunes(s, 0, l, RuneCap(Len(s))) IN
         IF cut.ok THEN Ok(ReplaceNewlines(cut.s \o <<ELLIPSIS>>)) ELSE Panic
    ELSE Ok(ReplaceNewlines(s))

shorten(s, l) ==
    IF ByteLen(s) > l
    THEN LET cut == SliceRunes(s, 0, l - 1, RuneCap(Len(s))) IN
         IF cut.ok THEN Ok(ReplaceNewlines(cut.s \o <<ELLIPSIS>>)) ELSE Panic
    ELSE Ok(ReplaceNewlines(s))

shortenMiddle(s, l) ==
    IF ByteLen(s) > l
    THEN LET l1 == l - 1
             first == SliceRunes(s, 0, Trunc(l1, 2) + Rem(l1, 2),
                                 RuneCap(Len(s)))
             \* the low bound is computed from the byte length; the high
             \* bound defaults to the length of the rune slice
             second == SliceRunes(s, ByteLen(s) - Trunc(l1, 2), Len(s), Len(s))
         IN IF first.ok /\ second.ok
            THEN Ok(ReplaceNewlines(first.s \o <<ELLIPSIS>> \o second.s))
            ELSE Panic
    ELSE Ok(ReplaceNewlines(s))

-----------------------------------------------------------------------------
(* ips(), ports(), prettySize() and the string helpers of the rows.         *)

\* The values ips(networklist)[0] can take: ips() ranges over a map, whose
\* iteration order is not fixed, so the first element is any of the
\* addresses.  Networks is the set of addresses of the map's values.
ips(Networks) == Networks

RECURSIVE Join(_, _)
\* strings.Join of a sequence of TLA+ strings
Join(lines, sep) ==
    IF lines = <<>> THEN ""
    ELSE IF Len(lines) = 1 THEN lines[1]
    ELSE lines[1] \o sep \o Join(Tail(lines), sep)

contains(s, e) == \E i \in 1..Len(s) : s[i] = e

\* The addresses of the model that hold a colon (IPv6 literals), which
\* net.JoinHostPort puts in brackets.
ColonAddrs == {"::"}

JoinHostPort(host, port) ==
    IF host \in ColonAddrs THEN "[" \o host \o "]:" \o port ELSE host \o ":" \o port

\* The line of one binding in ports(); "->" stands for the arrow rune.
portLine(p, verbose) ==
    LET pub == ToString(p.PublicPort)
        priv == ToString(p.PrivatePort) \o (IF p.Type # "tcp" THEN "/" \o p.Type ELSE "")
    IN IF p.IP # ""
       THEN IF verbose >= 1 THEN JoinHostPort(p.IP, pub) \o "->" \o priv
            ELSE pub \o "->" \o priv
       ELSE priv

RECURSIVE portLines(_, _, _)
portLines(ps, verbose, lines) ==
    IF ps = <<>> THEN lines
    ELSE LET line == portLine(Head(ps), verbose) IN
         portLines(Tail(ps), verbose,
                   IF line # "" /\ ~contains(lines, line) THEN Append(lines, line)
                   ELSE lines)

\* A slip: every line kept, the test with contains() left out
ports_noDedup(ps, verbose) ==
    Join([i \in 1..Len(ps) |-> portLine(ps[i], verbose)], ",")

ports(ps, verbose) == Join(portLines(ps, verbose, <<>>), ",")

unit == 1024

Units == <<"k", "M", "G", "T", "P", "E">>

-----------------------------------------------------------------------------
(* prettySize().  An int64 byte count, and the float64 made of it, is the   *)
(* sequence of its digits in base unit, the lowest first: b[i + 1] is the   *)
(* digit of unit^i.  Seven digits hold every count from 0 to 2^63, and the  *)
(* arithmetic on them is exact.                                             *)

Int64Digits == 7

\* The digits of a count below 2^31
Int64(n) ==
    [i \in 1..Int64Digits |->
        IF i = 1 THEN n % unit
        ELSE IF i = 2 THEN (n \div unit) % unit
        ELSE IF i = 3 THEN (n \div (unit * unit)) % unit
        ELSE IF i = 4 THEN n \div (unit * unit * unit)
        ELSE 0]

\* The exponent of the highest digit that is not zero (0 for the count 0)
Top(b) ==
    IF \A i \in 1..Len(b) : b[i] = 0 THEN 0
    ELSE (CHOOSE i \in 1..Len(b) : b[i] # 0 /\ \A j \in (i + 1)..Len(b) : b[j] = 0) - 1

\* The number of bits of a digit
BitLen(d) == CHOOSE n \in 0..11 : d < 2^n /\ (n = 0 \/ d >= 2^(n - 1))

RECURSIVE Carry(_, _)
\* The digits brought back below unit, from the digit i upwards
Carry(b, i) ==
    IF i >= Len(b) THEN b
    ELSE IF b[i] >= unit
         THEN Carry([b EXCEPT ![i] = b[i] - unit, ![i + 1] = b[i + 1] + 1], i + 1)
         ELSE Carry(b, i + 1)

\* The bits of a float64's significand
MantissaBits == 53

\* byts := float64(bytes): the count rounded to 53 significant bits, ties
\* to the even significand.  The bits dropped are at most the ten of the
\* lowest digit, and the second digit gives the parity then.
Float64(b) ==
    LET n == 10 * Top(b) + BitLen(b[Top(b) + 1]) - MantissaBits IN
    IF n <= 0 THEN b
    ELSE LET low == b[1] + unit * b[2]
             q == low \div 2^n
             r == low % 2^n
             up == 2 * r > 2^n \/ (2 * r = 2^n /\ q % 2 = 1)
             rounded == (IF up THEN q + 1 ELSE q) * 2^n
         IN Carry([b EXCEPT ![1] = rounded % unit, ![2] = rounded \div unit], 2)

\* How far below unit^e a float64 still has the float64 logarithm of
\* unit^e, so that math.Log(byts) / math.Log(unit) is e and not below it
\* (math.Log evaluated in IEEE double arithmetic; for e up to 4 no float64
\* below unit^e has).
LogSlack(e) == IF e = 5 THEN 3 ELSE IF e = 6 THEN 6144 ELSE 0

\* math.Floor(exp), which is int(exp) too, of
\* exp := math.Log(byts) / math.Log(unit), for byts >= unit
FloorExp(byts) ==
    LET e == Top(byts) + 1 IN
    IF /\ LogSlack(e) > 0
       /\ \A i \in 3..e : byts[i] = unit - 1
       /\ byts[1] + unit * byts[2] >= unit * unit - LogSlack(e)
    THEN e
    ELSE Top(byts)

RECURSIVE TimesTen(_, _, _)
\* Ten times the count b, digit by digit from the digit i with the carry c
TimesTen(b, i, c) ==
    IF i > Len(b) THEN b
    ELSE TimesTen([b EXCEPT ![i] = (10 * b[i] + c) % unit], i + 1, (10 * b[i] + c) \div unit)

\* byts / unit^e in tenths, rounded to the nearest tenth, ties to even: what
\* %.1f prints of the quotient, which is exact in float64 (unit^e is a power
\* of two).
Tenths(byts, e) ==
    LET t == TimesTen(byts, 1, 0)
        digit(i) == IF i >= 1 /\ i <= Len(t) THEN t[i] ELSE 0
        q == digit(e + 1) + unit * digit(e + 2)
        half == unit \div 2
        rest == \E i \in 1..(e - 1) : t[i] # 0
        up == \/ digit(e) > half
              \/ digit(e) = half /\ (rest \/ q % 2 = 1)
    IN IF up THEN q + 1 ELSE q

prettySize(bytes) ==
    LET byts == Float64(bytes) IN
    IF Top(byts) = 0 THEN ToString(bytes[1])
    ELSE LET exp == FloorExp(byts)
             tenths == Tenths(byts, exp)
         IN ToString(tenths \div 10) \o "." \o ToString(tenths % 10)
            \o Units[exp] \o "B"

\* strings.TrimPrefix(s, "/")
TrimSlash(s) == IF s # <<>> /\ s[1] = 47 THEN Tail(s) ELSE s

\* s[:n] of a Go string whose first n runes are ASCII; out of range when
\* the string is shorter.
PrefixBytes(s, n) == IF ByteLen(s) >= n THEN Ok(SubSeq(s, 1, n)) ELSE Panic

\* idParts := strings.SplitN(id, ":", 2); idParts[len(idParts)-1]
AfterColon(s) ==
    IF \E i \in 1..Len(s) : s[i] = COLON
    THEN LET i == CHOOSE j \in 1..Len(s) : s[j] = COLON /\ \A m \in 1..(j - 1) : s[m] # COLON
         IN SubSeq(s, i + 1, Len(s))
    ELSE s

\* strings.HasPrefix(s, prefix)
HasPrefix(s, prefix) == Len(s) >= Len(prefix) /\ SubSeq(s, 1, Len(prefix)) = prefix

-----------------------------------------------------------------------------
(* The inputs tried.                                                        *)

Thresholds == {0, 1, min, hour, 2 * day, 3 * day, 2 * week, 2 * month, 2 * year}

\* Durations around every threshold, their negatives (clock skew), and the
\* saturated duration.
Durations ==
    { sgn * (th * TicksPerSecond + skew) :
        th \in Thresholds, skew \in -MaxSkew..MaxSkew, sgn \in {-1, 1} }
    \cup {MaxDuration}

\* Times of a container's state: the zero time and a few moments before now.
Times == {ZeroTime, 5 * TicksPerSecond, 2 * hour * TicksPerSecond,
          3 * day * TicksPerSecond}

\* unit^e
Pow(e) == [i \in 1..Int64Digits |-> IF i = e + 1 THEN 1 ELSE 0]

\* unit^e - 1
PowPred(e) == [i \in 1..Int64Digits |-> IF i <= e THEN unit - 1 ELSE 0]

RECURSIVE Borrow(_, _)
\* The digits brought back to 0 and above, from the digit i upwards
Borrow(b, i) ==
    IF i >= Len(b) THEN b
    ELSE IF b[i] < 0
         THEN Borrow([b EXCEPT ![i] = b[i] + unit, ![i + 1] = b[i + 1] - 1], i + 1)
         ELSE Borrow(b, i + 1)

\* b + n and b - n for a small n and a b that is at least n
Plus(b, n) == [b EXCEPT ![1] = (b[1] + n) % unit, ![2] = b[2] + (b[1] + n) \div unit]
Minus(b, n) ==
    LET low == b[1] + unit * b[2] - n + unit * unit
    IN Borrow([b EXCEPT ![1] = low % unit, ![2] = (low \div unit) % unit,
                        ![3] = b[3] - (IF low < unit * unit THEN 1 ELSE 0)], 3)

\* The largest int64, 2^63 - 1
MaxInt64 == [i \in 1..Int64Digits |-> IF i = Int64Digits THEN 7 ELSE unit - 1]

\* Distances below a power of unit at which the float64 of the count or of
\* its logarithm changes
FarBelow == {63, 64, 65, 6144, 6272}

\* Counts of m and a quarter, a half and three quarters of unit^e
Quarters ==
    { [Pow(e) EXCEPT ![e + 1] = m, ![e] = f] :
        e \in 2..5, m \in {1, 8, 1023}, f \in {256, 512, 768} }
    \cup { [Pow(6) EXCEPT ![7] = m, ![6] = f] : m \in {1, 7}, f \in {256, 512, 768} }

\* The byte counts tried: the small ones, those around every power of unit,
\* multiples of a quarter and of a half of a power (ties of the rounding to
\* tenths) and their neighbours, counts past 2^53, and the largest.
Sizes ==
    { Int64(n) : n \in (0..MaxNear) \cup {1023, 1536, 1075, 1076, 1077, 1048575} }
    \cup { Plus(Pow(e), n) : e \in 1..6, n \in 0..MaxNear }
    \cup { Minus(PowPred(e), n) : e \in 2..6, n \in (0..MaxNear) \cup FarBelow }
    \cup { Plus(b, n) : b \in Quarters, n \in 0..1 }
    \cup { Minus(b, 1) : b \in Quarters }
    \cup { MaxInt64 }

States ==
    [Running : BOOLEAN, Restarting : BOOLEAN, Paused : BOOLEAN, Dead : BOOLEAN,
     StartedAt : Times, FinishedAt : Times, ExitCode : -MaxExitCode..MaxExitCode]

-----------------------------------------------------------------------------
(* What the daemon can answer.                                              *)

\* docker.APIContainers as ListContainers returns it, with the answer the
\* daemon gives when the container (Name, State, ImageID) and its image
\* (ImageCreated) are inspected.  Times are ticks before now.
CMinio ==
    [ID |-> <<99, 49, 57, 100, 97, 52, 101, 53>>,           \* c19da4e5
     Created |-> 3 * hour * TicksPerSecond,
     Networks |-> {"172.17.0.2"},
     Ports |-> << [PrivatePort |-> 9000, PublicPort |-> 9000, Type |-> "tcp", IP |-> "0.0.0.0"],
                  [PrivatePort |-> 9000, PublicPort |-> 9000, Type |-> "tcp", IP |-> "::"] >>,
     \* quay.io/minio/minio
     Image |-> <<113, 117, 97, 121, 46, 105, 111, 47, 109, 105, 110, 105, 111,
                 47, 109, 105, 110, 105, 111>>,
     \* /usr/bin/docker-entrypoint.sh server /data --console-address :9001
     Command |-> <<47, 117, 115, 114, 47, 98, 105, 110, 47, 100, 111, 99, 107,
                   101, 114, 45, 101, 110, 116, 114, 121, 112, 111, 105, 110,
                   116, 46, 115, 104, 32, 115, 101, 114, 118, 101, 114, 32, 47,
                   100, 97, 116, 97, 32, 45, 45, 99, 111, 110, 115, 111, 108,
                   101, 45, 97, 100, 100, 114, 101, 115, 115, 32, 58, 57, 48,
                   48, 49>>,
     Name |-> <<47, 109, 105, 110, 105, 111, 49>>,          \* /minio1
     State |-> [Running |-> TRUE, Restarting |-> FALSE, Paused |-> FALSE,
                Dead |-> FALSE, StartedAt |-> 2 * hour * TicksPerSecond,
                FinishedAt |-> ZeroTime, ExitCode |-> 0],
     ImageCreated |-> 19 * hour * TicksPerSecond]

\* A container that shares another's network namespace: no network of its
\* own.  Its name and image hold two-byte runes, its command a newline.
CNoNet ==
    [ID |-> <<55, 102, 51, 97, 57, 98, 50, 99>>,            \* 7f3a9b2c
     Created |-> 2 * hour * TicksPerSecond,
     Networks |-> {},
     Ports |-> <<>>,
     Image |-> <<114, 233, 47, 100, 98, 58, 49>>,           \* r(e acute)/db:1
     Command |-> <<115, 104, 32, 45, 99, 10, 115, 108, 101, 101, 112, 32, 49>>,
     \* /caf(e acute)-r(e acute)sum(e acute)-na(i diaeresis)ve
     Name |-> <<47, 99, 97, 102, 233, 45, 114, 233, 115, 117, 109, 233, 45, 110,
                97, 239, 118, 101>>,
     State |-> [Running |-> FALSE, Restarting |-> FALSE, Paused |-> FALSE,
                Dead |-> FALSE, StartedAt |-> 2 * hour * TicksPerSecond,
                FinishedAt |-> 5 * TicksPerSecond, ExitCode |-> 1],
     ImageCreated |-> 3 * day * TicksPerSecond]

\* A container on two networks, with an unpublished udp port.
CWeb ==
    [ID |-> <<48, 97, 49, 98, 50, 99, 51, 100>>,            \* 0a1b2c3d
     Created |-> 2 * hour * TicksPerSecond,
     Networks |-> {"10.0.0.2", "10.0.1.2"},
     Ports |-> << [PrivatePort |-> 53, PublicPort |-> 0, Type |-> "udp", IP |-> ""] >>,
     Image |-> <<110, 103, 105, 110, 120>>,                 \* nginx
     \* nginx -g 'daemon off;'
     Command |-> <<110, 103, 105, 110, 120, 32, 45, 103, 32, 39, 100, 97, 101,
                   109, 111, 110, 32, 111, 102, 102, 59, 39>>,
     Name |-> <<47, 119, 101, 98>>,                         \* /web
     State |-> [Running |-> TRUE, Restarting |-> FALSE, Paused |-> TRUE,
                Dead |-> FALSE, StartedAt |-> hour * TicksPerSecond,
                FinishedAt |-> ZeroTime, ExitCode |-> 0],
     ImageCreated |-> 5 * TicksPerSecond]

\* A container started with a script of two lines as its command.
CScript ==
    [ID |-> <<53, 101, 54, 102, 55, 97, 56, 98>>,           \* 5e6f7a8b
     Created |-> hour * TicksPerSecond,
     Networks |-> {"172.17.0.3"},
     Ports |-> <<>>,
     Image |-> <<97, 108, 112, 105, 110, 101>>,             \* alpine
     \* sh -c date(newline)sleep 9
     Command |-> <<115, 104, 32, 45, 99, 32, 100, 97, 116, 101, 10, 115, 108,
                   101, 101, 112, 32, 57>>,
     Name |-> <<47, 106, 111, 98>>,                         \* /job
     State |-> [Running |-> TRUE, Restarting |-> FALSE, Paused |-> FALSE,
                Dead |-> FALSE, StartedAt |-> 5 * TicksPerSecond,
                FinishedAt |-> ZeroTime, ExitCode |-> 0],
     ImageCreated |-> 3 * day * TicksPerSecond]

ContainerSamples == {CMinio, CNoNet, CWeb, CScript}

\* Sequences of length at most n over S
SeqsUpTo(S, n) == UNION { [1..m -> S] : m \in 0..n }

\* Sequences over S without repetition, of length at most n
DistinctSeqsUpTo(S, n) ==
    { s \in SeqsUpTo(S, n) : \A i, j \in 1..Len(s) : i # j => s[i] # s[j] }

\* docker.APIPort as the daemon reports bindings: a published port comes
\* with its bind address, an exposed port has neither.
PortSamples ==
    { [PrivatePort |-> 80, PublicPort |-> 8080, Type |-> "tcp", IP |-> "0.0.0.0"],
      [PrivatePort |-> 80, PublicPort |-> 8080, Type |-> "tcp", IP |-> "::"],
      [PrivatePort |-> 80, PublicPort |-> 0, Type |-> "tcp", IP |-> ""],
      [PrivatePort |-> 53, PublicPort |-> 5353, Type |-> "udp", IP |-> "0.0.0.0"],
      [PrivatePort |-> 53, PublicPort |-> 0, Type |-> "udp", IP |-> ""] }

\* The runes of the strings tried: a, b, a two-byte rune (e acute) and the
\* newline
Runes == {97, 98, 233, NEWLINE}

\* The strings handed to the shorteners
Strings == SeqsUpTo(Runes, MaxLen)

\* docker.APIImages
ImageSamples ==
    { [ID |-> <<115, 104, 97, 50, 53, 54, 58, 97, 98, 49, 50, 99, 100, 51, 52,
                101, 102>>,                                 \* sha256:ab12cd34ef
       Created |-> 19 * hour * TicksPerSecond, Size |-> 1536,
       RepoTags |-> <<"quay.io/minio/minio:latest", "minio:1">>],
      [ID |-> <<57, 101, 56, 100, 55, 99, 54, 98, 53, 97>>, \* 9e8d7c6b5a
       Created |-> 3 * day * TicksPerSecond, Size |-> 1023,
       RepoTags |-> <<>>] }

\* docker.Volume; the names are data, data2 and db
VolumeSamples ==
    { [Name |-> <<100, 97, 116, 97>>, Driver |-> "local",
       CreatedAt |-> 3 * day * TicksPerSecond],
      [Name |-> <<100, 97, 116, 97, 50>>, Driver |-> "local",
       CreatedAt |-> 2 * hour * TicksPerSecond],
      [Name |-> <<100, 98>>, Driver |-> "nfs",
       CreatedAt |-> 2 * hour * TicksPerSecond] }

\* The arguments given to examine: da, data and zz
ExamineArgs == { <<100, 97>>, <<100, 97, 116, 97>>, <<122, 122>> }

\* The widths term.GetSize reports
TermWidths == {4, 99, 100, 120}

Allocs == {"exact", "heap", "stack"}

-----------------------------------------------------------------------------
(* The process: its state before main runs, and how it ends.                *)

Running == -1

NoCall == [fn |-> "none", in |-> <<>>, out |-> <<>>]

NoOpts == [psAll |-> FALSE, psVerbose |-> 0, iAll |-> FALSE]
NoTable == [header |-> <<>>, rows |-> <<>>, cur |-> <<>>]
NoInfo == [Name |-> <<>>, State |-> <<>>, Image |-> <<>>]
NoRecord == [type |-> "none", id |-> <<>>]

\* Everything but pc, alloc and call, before main has run
Idle ==
    /\ cmd = ""
    /\ tty = "unread"
    /\ volumes = <<>>
    /\ opts = NoOpts
    /\ arg = <<>>
    /\ containers = <<>>
    /\ k = 0
    /\ cinfo = NoInfo
    /\ width = 0
    /\ w = NoTable
    /\ found = NoRecord
    /\ stdout = <<>>
    /\ stderr = <<>>
    /\ pagerIn = <<>>
    /\ trace = <<>>
    /\ exit = Running

Init ==
    /\ call = NoCall
    /\ pc = "main"
    /\ alloc \in Allocs
    /\ Idle

Query(op, res) == [ev |-> "query", op |-> op, res |-> res]
Pager(op, res) == [ev |-> "pager", op |-> op, res |-> res]
Exited(how, status) == [ev |-> "exit", op |-> how, res |-> ToString(status)]

\* The process ends with `status` after the events evs; how is "return"
\* (main returned), "os.Exit", "log.Fatal" or "panic".
\* Nothing the tabwriter holds is printed: only Flush prints it.
Terminate(evs, how, status) ==
    /\ pc' = "exited"
    /\ exit' = status
    /\ trace' = trace \o evs \o <<Exited(how, status)>>

\* log.Fatalf(msg): the message on standard error, exit status 1
Fatal(evs, msg) ==
    /\ Terminate(evs, "log.Fatal", 1)
    /\ stderr' = Append(stderr, [kind |-> "fatal", text |-> msg])

\* A run-time panic: the goroutine trace on standard error, exit status 2
Crash(evs) ==
    /\ Terminate(evs, "panic", 2)
    /\ stderr' = Append(stderr, [kind |-> "panic", text |-> "panic"])

-----------------------------------------------------------------------------
(* main: the dispatch on os.Args.                                           *)

WIDE == 100

PsNames == {"ps", "c", "containers"}
ImgsNames == {"i", "imgs", "images"}
VolsNames == {"v", "vols", "volumes"}
ExamineNames == {"x", "examine", "inspect"}
\* First arguments that name no subcommand
OtherNames == {"bogus", "help"}

UsageList == <<"subcommands:", "  ps|c|containers", "  i|imgs|images",
               "  v|vols|volumes", "  x|examine|inspect">>

Msg(text) == [kind |-> "msg", text |-> text]

\* len(os.Args) == 1: the list of subcommands, and main returns
MainNoArgs ==
    /\ pc = "main"
    /\ stdout' = stdout \o [i \in 1..Len(UsageList) |-> Msg(UsageList[i])]
    /\ Terminate(<<>>, "return", 0)
    /\ UNCHANGED <<call, alloc, cmd, tty, volumes, opts, arg, containers, k, cinfo, width, w, found,
                   stderr, pagerIn>>

\* A slip: the status of a failed query for an unknown subcommand.
MainUnknown_status1 ==
    /\ pc = "main"
    /\ \E sub \in OtherNames :
          stdout' = Append(stdout, Msg("\"" \o sub \o "\": unknown subcommand."))
    /\ Terminate(<<>>, "os.Exit", 1)
    /\ UNCHANGED <<call, alloc, cmd, tty, volumes, opts, arg, containers, k, cinfo, width, w, found,
                   stderr, pagerIn>>

\* default: of the switch
MainUnknown ==
    /\ pc = "main"
    /\ \E sub \in OtherNames :
          stdout' = Append(stdout, Msg("\"" \o sub \o "\": unknown subcommand."))
    /\ Terminate(<<>>, "os.Exit", 2)
    /\ UNCHANGED <<call, alloc, cmd, tty, volumes, opts, arg, containers, k, cinfo, width, w, found,
                   stderr, pagerIn>>

\* A flag the FlagSet does not know: pflag.ExitOnError prints the error and
\* the flags on standard error and exits with status 2 inside Parse.
MainParseError ==
    /\ pc = "main"
    /\ \E sub \in PsNames \cup ImgsNames \cup VolsNames \cup ExamineNames :
          stderr' = Append(stderr, [kind |-> "flags", text |-> sub])
    /\ Terminate(<<>>, "os.Exit", 2)
    /\ UNCHANGED <<call, alloc, cmd, tty, volumes, opts, arg, containers, k, cinfo, width, w, found,
                   stdout, pagerIn>>

\* NArg() > 0 for ps, i and v; NArg() != 1 for x
MainPosArgs ==
    /\ pc = "main"
    /\ \E sub \in PsNames \cup ImgsNames \cup VolsNames \cup ExamineNames,
          npos \in 0..MaxPosArgs :
          /\ IF sub \in ExamineNames THEN npos # 1 ELSE npos > 0
          /\ stdout' = Append(stdout,
                 Msg(IF sub \in ExamineNames
                     THEN "Expected 1 ID/name (prefix) to examine."
                     ELSE "Unexpected positional arguments."))
    /\ Terminate(<<>>, "os.Exit", 2)
    /\ UNCHANGED <<call, alloc, cmd, tty, volumes, opts, arg, containers, k, cinfo, width, w, found,
                   stderr, pagerIn>>

MainPs ==
    /\ pc = "main"
    /\ \E sub \in PsNames, all \in BOOLEAN, verbose \in 0..MaxVerbose :
          opts' = [opts EXCEPT !.psAll = all, !.psVerbose = verbose]
    /\ pc' = "ps:newClient"
    /\ cmd' = "ps"
    /\ UNCHANGED <<call, alloc, tty, volumes, arg, containers, k, cinfo, width, w, found,
                   stdout, stderr, pagerIn, trace, exit>>

MainImgs ==
    /\ pc = "main"
    /\ \E sub \in ImgsNames, all \in BOOLEAN :
          opts' = [opts EXCEPT !.iAll = all]
    /\ pc' = "imgs:newClient"
    /\ cmd' = "imgs"
    /\ UNCHANGED <<call, alloc, tty, volumes, arg, containers, k, cinfo, width, w, found,
                   stdout, stderr, pagerIn, trace, exit>>

MainVols ==
    /\ pc = "main"
    /\ \E sub \in VolsNames : pc' = "vols:newClient"
    /\ cmd' = "vols"
    /\ UNCHANGED <<call, alloc, tty, volumes, opts, arg, containers, k, cinfo, width, w, found,
                   stdout, stderr, pagerIn, trace, exit>>

MainExamine ==
    /\ pc = "main"
    /\ \E sub \in ExamineNames, a \in ExamineArgs : arg' = a
    /\ pc' = "x:newClient"
    /\ cmd' = "x"
    /\ UNCHANGED <<call, alloc, tty, volumes, opts, containers, k, cinfo, width, w, found,
                   stdout, stderr, pagerIn, trace, exit>>

main ==
    \/ MainNoArgs \/ MainUnknown \/ MainParseError \/ MainPosArgs
    \/ MainPs \/ MainImgs \/ MainVols \/ MainExamine

\* newClient(): docker.NewClient fails on an endpoint it cannot parse
\* (DOCKER_HOST); it sends nothing to the daemon.
newClient ==
    /\ pc = cmd \o ":newClient"
    /\ \/ /\ pc' = (IF cmd = "x" THEN "x:container" ELSE cmd \o ":list")
          /\ UNCHANGED <<stderr, trace, exit>>
       \/ Fatal(<<>>, "NewClient")
    /\ UNCHANGED <<call, alloc, cmd, tty, volumes, opts, arg, containers, k, cinfo, width, w, found,
                   stdout, pagerIn>>

-----------------------------------------------------------------------------
(* ps: the table of containers.                                             *)

\* less(i, j) of the three sort.Slice calls: Created (a time of creation)
\* ascending.  The model's times are ticks before now, so the earlier time
\* is the larger number.
CreatedBefore(a, b) == a > b

\* What sort.Slice can leave for the list lst: sort.Slice is not stable, so
\* every ordering of lst that is sorted by the field `created`.
SortResults(lst, created) ==
    { s \in [1..Len(lst) -> {lst[i] : i \in 1..Len(lst)}] :
        /\ \A i \in 1..Len(lst) : \E j \in 1..Len(lst) : s[j] = lst[i]
        /\ \A i, j \in 1..Len(s) : i < j => ~CreatedBefore(s[j][created], s[i][created]) }

CreatedOf == "Created"
CreatedAtOf == "CreatedAt"

\* termwidth() when standard output is not a terminal
NoTerminalWidth == 999

\* termwidth() (lines 1233-1242) when term.GetSize succeeds with `size`
termwidth(isTerminal, size) == IF isTerminal = "no" THEN NoTerminalWidth ELSE size

\* int(0.2*width) and int(0.15*width); the float64 products truncate to
\* these integers for every width from 0 to 5000.
Pct20(wd) == (2 * wd) \div 10
Pct15(wd) == (15 * wd) \div 100

Cell(col, r) == [col |-> col, r |-> r]

\* The header of ps, column by column
psHeader(verbose, wd) ==
    <<"id", "name">>
    \o (IF verbose >= 1 THEN <<"age">> ELSE <<>>)
    \o <<"up", "ip", "ports">>
    \o (IF verbose >= 1 \/ wd >= WIDE THEN <<"cmd">> ELSE <<>>)
    \o <<"image", "age">>

\* A slip in the row's condition for cmd: > for >=
psRowFields_strictWide(c, info, ip, verbose, wd) ==
    << Cell("id", PrefixBytes(c.ID, 6)),
       Cell("name", IF verbose < 2 THEN shorten(TrimSlash(info.Name), Pct20(wd))
                    ELSE Ok(TrimSlash(info.Name))) >>
    \o (IF verbose >= 1 THEN << Cell("age", Ok(prettyDuration(Since(c.Created)))) >>
        ELSE <<>>)
    \o << Cell("up", Ok(state(info.State))),
          Cell("ip", ip),
          Cell("ports", Ok(ports(c.Ports, verbose))) >>
    \o (IF verbose >= 1 \/ wd > WIDE
        THEN << Cell("cmd", IF verbose < 2 THEN shortenMiddle(c.Command, Pct15(wd))
                            ELSE Ok(c.Command)) >>
        ELSE <<>>)
    \o << Cell("image", IF verbose < 2 THEN shorten(c.Image, Pct20(wd))
                        ELSE Ok(c.Image)) >>

\* The fields of a row up to the image name, in the order the loop body
\* computes and prints them (lines 1048-1078); ip is ips(c.Networks)[0].
\* Each field is a value or the panic that computing it raises.
psRowFields(c, info, ip, verbose, wd) ==
    << Cell("id", PrefixBytes(c.ID, 6)),
       Cell("name", IF verbose < 2 THEN shorten(TrimSlash(info.Name), Pct20(wd))
                    ELSE Ok(TrimSlash(info.Name))) >>
    \o (IF verbose >= 1 THEN << Cell("age", Ok(prettyDuration(Since(c.Created)))) >>
        ELSE <<>>)
    \o << Cell("up", Ok(state(info.State))),
          Cell("ip", ip),
          Cell("ports", Ok(ports(c.Ports, verbose))) >>
    \o (IF verbose >= 1 \/ wd >= WIDE
        THEN << Cell("cmd", IF verbose < 2 THEN shortenMiddle(c.Command, Pct15(wd))
                            ELSE Ok(c.Command)) >>
        ELSE <<>>)
    \o << Cell("image", IF verbose < 2 THEN shorten(c.Image, Pct20(wd))
                        ELSE Ok(c.Image)) >>

\* The fields printed before the first panic
RECURSIVE Printed(_)
Printed(cells) ==
    IF cells = <<>> \/ ~Head(cells).r.ok THEN <<>>
    ELSE <<[col |-> Head(cells).col, val |-> Head(cells).r.s]>> \o Printed(Tail(cells))

\* ips(c.Networks)[0]: an index out of range when the container has no
\* network, else any of its addresses.
FirstIP(Networks) ==
    IF ips(Networks) = {} THEN {Panic} ELSE {Ok(ip) : ip \in ips(Networks)}

\* client.ListContainers and sort.Slice (lines 1016-1027)
PsList ==
    /\ pc = "ps:list"
    /\ \/ Fatal(<<Query("ListContainers", "err")>>, "ListContainers")
          /\ UNCHANGED containers
       \/ /\ \E lst \in DistinctSeqsUpTo(ContainerSamples, MaxContainers) :
                containers' \in SortResults(lst, CreatedOf)
          /\ trace' = Append(trace, Query("ListContainers", "ok"))
          /\ pc' = "ps:header"
          /\ UNCHANGED <<stderr, exit>>
    /\ UNCHANGED <<call, alloc, cmd, tty, volumes, opts, arg, k, cinfo, width, w, found, stdout, pagerIn>>

\* termwidth() and the header (lines 1029-1041)
PsHeader ==
    /\ pc = "ps:header"
    /\ \/ \* a terminal whose size cannot be read
          /\ tty' = "yes"
          /\ Fatal(<<>>, "terminal.GetSize")
          /\ UNCHANGED <<width, w, k>>
       \/ /\ \E t \in {"yes", "no"}, size \in TermWidths :
                /\ tty' = t
                /\ width' = termwidth(t, size)
          /\ w' = [header |-> psHeader(opts.psVerbose, width'), rows |-> <<>>, cur |-> <<>>]
          /\ k' = 1
          /\ pc' = IF containers = <<>> THEN "ps:flush" ELSE "ps:inspect"
          /\ UNCHANGED <<stderr, trace, exit>>
    /\ UNCHANGED <<call, alloc, cmd, volumes, opts, arg, containers, cinfo, found, stdout, pagerIn>>

\* A slip: the failed inspection of a container skipped over with a
\* warning, as the failed inspection of an image is.
PsInspect_skip ==
    /\ pc = "ps:inspect"
    /\ LET c == containers[k] IN
       \/ /\ trace' = Append(trace, Query("InspectContainer", "err"))
          /\ stderr' = Append(stderr, [kind |-> "warning", text |-> "InspectContainer"])
          /\ k' = k + 1
          /\ pc' = IF k = Len(containers) THEN "ps:flush" ELSE "ps:inspect"
          /\ UNCHANGED <<cinfo, w, exit>>
       \/ /\ cinfo' = [Name |-> c.Name, State |-> c.State, Image |-> c.Image]
          /\ k' = k
          /\ \E ip \in FirstIP(c.Networks) :
                LET cells == psRowFields(c, cinfo', ip, opts.psVerbose, width)
                    crashed == \E i \in 1..Len(cells) : ~cells[i].r.ok
                IN /\ w' = [w EXCEPT !.cur = Printed(cells)]
                   /\ IF crashed
                      THEN Crash(<<Query("InspectContainer", "ok")>>)
                      ELSE /\ trace' = Append(trace, Query("InspectContainer", "ok"))
                           /\ pc' = "ps:image"
                           /\ UNCHANGED <<stderr, exit>>
    /\ UNCHANGED <<call, alloc, cmd, tty, volumes, opts, arg, containers, width, found, stdout, pagerIn>>

\* client.InspectContainerWithOptions and the fields of the row up to the
\* image name (lines 1043-1078)
PsInspect ==
    /\ pc = "ps:inspect"
    /\ LET c == containers[k] IN
       \/ /\ Fatal(<<Query("InspectContainer", "err")>>, "InspectContainer")
          /\ UNCHANGED <<cinfo, w>>
       \/ /\ cinfo' = [Name |-> c.Name, State |-> c.State, Image |-> c.Image]
          /\ \E ip \in FirstIP(c.Networks) :
                LET cells == psRowFields(c, cinfo', ip, opts.psVerbose, width)
                    crashed == \E i \in 1..Len(cells) : ~cells[i].r.ok
                IN /\ w' = [w EXCEPT !.cur = Printed(cells)]
                   /\ IF crashed
                      THEN Crash(<<Query("InspectContainer", "ok")>>)
                      ELSE /\ trace' = Append(trace, Query("InspectContainer", "ok"))
                           /\ pc' = "ps:image"
                           /\ UNCHANGED <<stderr, exit>>
    /\ UNCHANGED <<call, alloc, cmd, tty, volumes, opts, arg, containers, k, width, found, stdout, pagerIn>>

\* A slip: the failed inspection of an image handled like every other
\* failed query.
PsImage_fatal ==
    /\ pc = "ps:image"
    /\ LET c == containers[k] IN
       \/ /\ Fatal(<<Query("InspectImage", "err")>>, "InspectImage")
          /\ UNCHANGED <<w, k>>
       \/ /\ w' = [w EXCEPT !.rows = Append(@, Append(w.cur,
                       [col |-> "age", val |-> prettyDuration(Since(c.ImageCreated))])),
                            !.cur = <<>>]
          /\ trace' = Append(trace, Query("InspectImage", "ok"))
          /\ k' = k + 1
          /\ pc' = IF k = Len(containers) THEN "ps:flush" ELSE "ps:inspect"
          /\ UNCHANGED <<stderr, exit>>
    /\ UNCHANGED <<call, alloc, cmd, tty, volumes, opts, arg, containers, cinfo, width, found, stdout, pagerIn>>

\* client.InspectImage and the age of the image (lines 1080-1087)
PsImage ==
    /\ pc = "ps:image"
    /\ LET c == containers[k] IN
       \E res \in {"ok", "err"} :
          LET imgAge == IF res = "err" THEN "?"
                        ELSE prettyDuration(Since(c.ImageCreated))
          IN /\ w' = [w EXCEPT !.rows = Append(@, Append(w.cur,
                          [col |-> "age", val |-> imgAge])),
                               !.cur = <<>>]
             /\ stderr' = IF res = "err"
                          THEN Append(stderr, [kind |-> "warning", text |-> "InspectImage"])
                          ELSE stderr
             /\ trace' = Append(trace, Query("InspectImage", res))
    /\ k' = k + 1
    /\ pc' = IF k = Len(containers) THEN "ps:flush" ELSE "ps:inspect"
    /\ UNCHANGED <<call, alloc, cmd, tty, volumes, opts, arg, containers, cinfo, width, found, stdout,
                   pagerIn, exit>>

\* w.Flush() and the return to main (lines 1089-1091)
PsFlush ==
    /\ pc = "ps:flush"
    /\ stdout' = Append(stdout, [kind |-> "table", header |-> w.header, rows |-> w.rows])
    /\ Terminate(<<>>, "return", 0)
    /\ UNCHANGED <<call, alloc, cmd, tty, volumes, opts, arg, containers, k, cinfo, width, w, found,
                   stderr, pagerIn>>

ps == PsList \/ PsHeader \/ PsInspect \/ PsImage \/ PsFlush

-----------------------------------------------------------------------------
(* imgs and vols: the tables of images and of volumes.                      *)

imgsRowFields(i) ==
    << Cell("id", PrefixBytes(AfterColon(i.ID), 6)),
       Cell("age", Ok(prettyDuration(Since(i.Created)))),
       Cell("size", Ok(prettySize(Int64(i.Size)))),
       Cell("repotags", Ok(Join(i.RepoTags, ","))) >>

volsRowFields(v) ==
    << Cell("age", Ok(prettyDuration(Since(v.CreatedAt)))),
       Cell("driver", Ok(v.Driver)),
       Cell("name", Ok(v.Name)) >>

\* The rows of a list whose every field could be computed
Rows(fields) == [i \in 1..Len(fields) |-> Printed(fields[i])]

\* Some field of some row could not be computed
RowsCrash(fields) ==
    \E i \in 1..Len(fields) : \E j \in 1..Len(fields[i]) : ~fields[i][j].r.ok

imgsRows(lst) == [i \in 1..Len(lst) |-> imgsRowFields(lst[i])]
volsRows(lst) == [i \in 1..Len(lst) |-> volsRowFields(lst[i])]

\* imgs (lines 1093-1122): one query, then the whole table
Imgs ==
    /\ pc = "imgs:list"
    /\ \/ Fatal(<<Query("ListImages", "err")>>, "ListImages")
          /\ UNCHANGED <<w, stdout>>
       \/ \E lst \in DistinctSeqsUpTo(ImageSamples, MaxObjects) :
          \E sorted \in SortResults(lst, CreatedOf) :
             IF RowsCrash(imgsRows(sorted))
             THEN /\ Crash(<<Query("ListImages", "ok")>>)
                  /\ UNCHANGED <<w, stdout>>
             ELSE /\ w' = [header |-> <<"id", "age", "size", "repotags">>,
                           rows |-> Rows(imgsRows(sorted)), cur |-> <<>>]
                  /\ stdout' = Append(stdout, [kind |-> "table", header |-> w'.header,
                                               rows |-> w'.rows])
                  /\ Terminate(<<Query("ListImages", "ok")>>, "return", 0)
                  /\ UNCHANGED stderr
    /\ UNCHANGED <<call, alloc, cmd, tty, volumes, opts, arg, containers, k, cinfo, width, found, pagerIn>>

\* vols (lines 1124-1146): one query, then the whole table
Vols ==
    /\ pc = "vols:list"
    /\ \/ Fatal(<<Query("ListVolumes", "err")>>, "ListVolumes")
          /\ UNCHANGED <<w, stdout>>
       \/ \E lst \in DistinctSeqsUpTo(VolumeSamples, MaxObjects) :
          \E sorted \in SortResults(lst, CreatedAtOf) :
             /\ w' = [header |-> <<"age", "driver", "name">>,
                      rows |-> Rows(volsRows(sorted)), cur |-> <<>>]
             /\ stdout' = Append(stdout, [kind |-> "table", header |-> w'.header,
                                          rows |-> w'.rows])
             /\ Terminate(<<Query("ListVolumes", "ok")>>, "return", 0)
             /\ UNCHANGED stderr
    /\ UNCHANGED <<call, alloc, cmd, tty, volumes, opts, arg, containers, k, cinfo, width, found, pagerIn>>

-----------------------------------------------------------------------------
(* examine, outputFound and runPager.                                       *)

\* The loop over the volumes (lines 1177-1185): the volumes whose name has
\* the prefix, in the order met, up to the second one, at which the loop
\* is left.  vol is what the loop has found so far.
\* A slip: the loop left at the first match, the second never looked for.
matchVolumes_first(vols, prefix, vol) ==
    LET hits == SelectSeq(vols, LAMBDA v : HasPrefix(v.Name, prefix))
    IN IF vol # <<>> THEN vol ELSE IF hits = <<>> THEN <<>> ELSE <<hits[1]>>

RECURSIVE matchVolumes(_, _, _)
matchVolumes(vols, prefix, vol) ==
    IF vols = <<>> THEN vol
    ELSE IF HasPrefix(Head(vols).Name, prefix)
         THEN IF vol # <<>> THEN Append(vol, Head(vols))
              ELSE matchVolumes(Tail(vols), prefix, <<Head(vols)>>)
         ELSE matchVolumes(Tail(vols), prefix, vol)

\* The first line of outputFound: "Found <type>: <id>" on standard error
FoundMsg(type, id) == [kind |-> "found", text |-> type, id |-> id]

\* A slip: the return after outputFound left out, so that the image is
\* probed although the container was found.
ExContainer_noReturn ==
    /\ pc = "x:container"
    /\ \/ Fatal(<<Query("InspectContainer", "err")>>, "InspectContainer")
          /\ UNCHANGED found
       \/ /\ trace' = Append(trace, Query("InspectContainer", "notfound"))
          /\ pc' = "x:image"
          /\ UNCHANGED <<found, stderr, exit>>
       \/ /\ trace' = Append(trace, Query("InspectContainer", "ok"))
          /\ found' = [type |-> "container", id |-> CMinio.ID]
          /\ stderr' = Append(stderr, FoundMsg("container", CMinio.ID))
          /\ pc' = "x:image"
          /\ UNCHANGED exit
    /\ UNCHANGED <<call, alloc, cmd, tty, volumes, opts, arg, containers, k, cinfo, width, w, stdout, pagerIn>>

\* client.InspectContainerWithOptions (lines 1150-1160)
ExContainer ==
    /\ pc = "x:container"
    /\ \/ Fatal(<<Query("InspectContainer", "err")>>, "InspectContainer")
          /\ UNCHANGED found
       \/ /\ trace' = Append(trace, Query("InspectContainer", "notfound"))
          /\ pc' = "x:image"
          /\ UNCHANGED <<found, stderr, exit>>
       \/ /\ trace' = Append(trace, Query("InspectContainer", "ok"))
          /\ found' = [type |-> "container", id |-> CMinio.ID]
          /\ stderr' = Append(stderr, FoundMsg("container", CMinio.ID))
          /\ pc' = "out:print"
          /\ UNCHANGED exit
    /\ UNCHANGED <<call, alloc, cmd, tty, volumes, opts, arg, containers, k, cinfo, width, w, stdout, pagerIn>>

\* client.InspectImage (lines 1162-1170)
ExImage ==
    /\ pc = "x:image"
    /\ \/ Fatal(<<Query("InspectImage", "err")>>, "InspectImage")
          /\ UNCHANGED found
       \/ /\ trace' = Append(trace, Query("InspectImage", "notfound"))
          /\ pc' = "x:volumes"
          /\ UNCHANGED <<found, stderr, exit>>
       \/ /\ trace' = Append(trace, Query("InspectImage", "ok"))
          /\ found' = [type |-> "image", id |-> CMinio.Image]
          /\ stderr' = Append(stderr, FoundMsg("image", CMinio.Image))
          /\ pc' = "out:print"
          /\ UNCHANGED exit
    /\ UNCHANGED <<call, alloc, cmd, tty, volumes, opts, arg, containers, k, cinfo, width, w, stdout, pagerIn>>

\* client.ListVolumes and the search for the prefix (lines 1172-1191)
ExVolumes ==
    /\ pc = "x:volumes"
    /\ \/ Fatal(<<Query("ListVolumes", "err")>>, "ListVolumes")
          /\ UNCHANGED <<found, volumes>>
       \/ \E vols \in DistinctSeqsUpTo(VolumeSamples, MaxObjects) :
          LET vol == matchVolumes(vols, arg, <<>>) IN
          /\ volumes' = vols
          /\ IF Len(vol) > 1
             THEN /\ stderr' = Append(stderr, [kind |-> "msg",
                                   text |-> "Found multiple volumes with prefix"])
                  /\ Terminate(<<Query("ListVolumes", "ok")>>, "return", 0)
                  /\ UNCHANGED found
             ELSE IF vol = <<>>
             THEN /\ stderr' = Append(stderr, [kind |-> "msg",
                                   text |-> "Found nothing matching."])
                  /\ Terminate(<<Query("ListVolumes", "ok")>>, "return", 0)
                  /\ UNCHANGED found
             ELSE /\ trace' = Append(trace, Query("ListVolumes", "ok"))
                  /\ found' = [type |-> "volume", id |-> vol[1].Name]
                  /\ stderr' = Append(stderr, FoundMsg("volume", vol[1].Name))
                  /\ pc' = "out:print"
                  /\ UNCHANGED exit
    /\ UNCHANGED <<call, alloc, cmd, tty, opts, arg, containers, k, cinfo, width, w, stdout, pagerIn>>

examine == ExContainer \/ ExImage \/ ExVolumes

Record(r) == [kind |-> "record", type |-> r.type, id |-> r.id]

\* outputFound from term.IsTerminal on (lines 1200-1212): the dump goes to
\* standard output, or the pager is started (runPager, lines 1215-1231).
OutPrint ==
    /\ pc = "out:print"
    /\ \/ \* not a terminal
          /\ tty' = "no"
          /\ stdout' = Append(stdout, Record(found))
          /\ Terminate(<<>>, "return", 0)
          /\ UNCHANGED stderr
       \/ \* a terminal: cmd.StdinPipe or cmd.Start fails
          /\ tty' = "yes"
          /\ Fatal(<<Pager("start", "err")>>, "runPager")
          /\ UNCHANGED stdout
       \/ \* a terminal: the pager runs
          /\ tty' = "yes"
          /\ trace' = Append(trace, Pager("start", "ok"))
          /\ pc' = "out:write"
          /\ UNCHANGED <<stdout, stderr, exit>>
    /\ UNCHANGED <<call, alloc, cmd, volumes, opts, arg, containers, k, cinfo, width, w, found, pagerIn>>

\* fmt.Fprintf(out, "%s\n", b) with out the pager's pipe (line 1212); a
\* write error (the pager has gone) is ignored.
OutWrite ==
    /\ pc = "out:write"
    /\ \E res \in {"ok", "err"} :
          /\ pagerIn' = IF res = "ok" THEN Append(pagerIn, Record(found)) ELSE pagerIn
          /\ trace' = Append(trace, Pager("write", res))
    /\ pc' = "out:close"
    /\ UNCHANGED <<call, alloc, cmd, tty, volumes, opts, arg, containers, k, cinfo, width, w, found,
                   stdout, stderr, exit>>

\* A slip: the deferred function without cmd.Wait(), so that main returns
\* while the pager still runs.
OutClose_noWait ==
    /\ pc = "out:close"
    /\ Terminate(<<Pager("close", "ok")>>, "return", 0)
    /\ UNCHANGED <<call, alloc, cmd, tty, volumes, opts, arg, containers, k, cinfo, width, w, found,
                   stdout, stderr, pagerIn>>

\* The deferred function, first half: out.Close() (line 1205)
OutClose ==
    /\ pc = "out:close"
    /\ trace' = Append(trace, Pager("close", "ok"))
    /\ pc' = "out:wait"
    /\ UNCHANGED <<call, alloc, cmd, tty, volumes, opts, arg, containers, k, cinfo, width, w, found,
                   stdout, stderr, pagerIn, exit>>

\* The deferred function, second half: cmd.Wait() (lines 1206-1209), then
\* the returns of outputFound, examine and main
OutWait ==
    /\ pc = "out:wait"
    /\ \/ /\ Terminate(<<Pager("wait", "ok")>>, "return", 0)
          /\ UNCHANGED stderr
       \/ Fatal(<<Pager("wait", "err")>>, "Wait")
    /\ UNCHANGED <<call, alloc, cmd, tty, volumes, opts, arg, containers, k, cinfo, width, w, found,
                   stdout, pagerIn>>

outputFound == OutPrint \/ OutWrite \/ OutClose \/ OutWait

Next == main \/ newClient \/ ps \/ Imgs \/ Vols \/ examine \/ outputFound

Spec == Init /\ [][Next]_vars

-----------------------------------------------------------------------------
(* The formatting functions called on their own.                            *)

InitFmt ==
    /\ call = NoCall
    /\ pc = "fmt"
    /\ alloc \in Allocs
    /\ Idle

Return == call # NoCall /\ call' = NoCall /\ UNCHANGED cliVars

CallPrettyDuration ==
    /\ call = NoCall
    /\ \E d \in Durations :
          call' = [fn |-> "prettyDuration", in |-> d, out |-> prettyDuration(d)]
    /\ UNCHANGED cliVars

CallState ==
    /\ call = NoCall
    /\ \E st \in States :
          call' = [fn |-> "state", in |-> st, out |-> state(st)]
    /\ UNCHANGED cliVars

CallPrettySize ==
    /\ call = NoCall
    /\ \E b \in Sizes :
          call' = [fn |-> "prettySize", in |-> b, out |-> prettySize(b)]
    /\ UNCHANGED cliVars

\* shorten(s, l), and shorten applied with the same l to what a call of
\* it returned
CallShorten ==
    /\ \/ /\ call = NoCall
          /\ \E s \in Strings, l \in 0..MaxL :
                call' = [fn |-> "shorten", in |-> [s |-> s, l |-> l, again |-> FALSE],
                         out |-> shorten(s, l)]
       \/ /\ call # NoCall
          /\ call.fn = "shorten" /\ ~call.in.again /\ call.out.ok
          /\ call' = [fn |-> "shorten",
                      in |-> [s |-> call.out.s, l |-> call.in.l, again |-> TRUE],
                      out |-> shorten(call.out.s, call.in.l)]
    /\ UNCHANGED cliVars

\* shortenMiddle(s, l), and shortenMiddle applied with the same l to what a
\* call of it returned
CallShortenMiddle ==
    /\ \/ /\ call = NoCall
          /\ \E s \in Strings, l \in 0..MaxL :
                call' = [fn |-> "shortenMiddle", in |-> [s |-> s, l |-> l, again |-> FALSE],
                         out |-> shortenMiddle(s, l)]
       \/ /\ call # NoCall
          /\ call.fn = "shortenMiddle" /\ ~call.in.again /\ call.out.ok
          /\ call' = [fn |-> "shortenMiddle",
                      in |-> [s |-> call.out.s, l |-> call.in.l, again |-> TRUE],
                      out |-> shortenMiddle(call.out.s, call.in.l)]
    /\ UNCHANGED cliVars

CallPorts ==
    /\ call = NoCall
    /\ \E bindings \in SeqsUpTo(PortSamples, MaxPorts), verbose \in 0..MaxVerbose :
          call' = [fn |-> "ports", in |-> [ports |-> bindings, verbose |-> verbose],
                   out |-> ports(bindings, verbose)]
    /\ UNCHANGED cliVars

NextFmt ==
    CallPrettyDuration \/ CallState \/ CallPrettySize \/ CallShorten
    \/ CallShortenMiddle \/ CallPorts \/ Return

SpecFmt == InitFmt /\ [][NextFmt]_vars

-----------------------------------------------------------------------------
(* What the formulas below read off the state.                              *)

Queries == SelectSeq(trace, LAMBDA e : e.ev = "query")
PagerOps == SelectSeq(trace, LAMBDA e : e.ev = "pager")
OpsOf(evs) == [i \in 1..Len(evs) |-> evs[i].op]
IsPrefix(s, t) == Len(s) <= Len(t) /\ SubSeq(t, 1, Len(s)) = s
Last(s) == s[Len(s)]

\* The records dumped, on standard output or into the pager
Records == SelectSeq(stdout \o pagerIn, LAMBDA e : e.kind = "record")

Printed1(out, text) == \E i \in 1..Len(out) : out[i].kind = "msg" /\ out[i].text = text
UnknownMsgs == { "\"" \o sub \o "\": unknown subcommand." : sub \in OtherNames }
PosArgsMsgs == {"Unexpected positional arguments.", "Expected 1 ID/name (prefix) to examine."}
AmbiguousMsg == "Found multiple volumes with prefix"
NothingMsg == "Found nothing matching."

UnknownSubcommand == \E m \in UnknownMsgs : Printed1(stdout, m)
WrongArgCount == \E m \in PosArgsMsgs : Printed1(stdout, m)
AmbiguousLookup == Printed1(stderr, AmbiguousMsg)
UsageListPrinted ==
    \A i \in 1..Len(UsageList) : Printed1(stdout, UsageList[i])

\* A required query failed: every failed query but the inspection of a
\* container's image in ps
RequiredFailure(e) ==
    e.ev = "query" /\ e.res = "err" /\ ~(cmd = "ps" /\ e.op = "InspectImage")

-----------------------------------------------------------------------------
(* C1: examine probes the container, then the image, then the volumes; a   *)
(* later kind is probed only after every earlier one was not found; the    *)
(* record handed to the output is the first one found, and at most one     *)
(* record is ever output.                                                   *)
C1_ProbeOrder ==
    cmd = "x" =>
        LET q == Queries IN
        /\ IsPrefix(OpsOf(q), <<"InspectContainer", "InspectImage", "ListVolumes">>)
        /\ \A i \in 1..Len(q) : i < Len(q) => q[i].res = "notfound"
        /\ (Len(q) >= 1 /\ q[1].res = "ok" => found.type = "container")
        /\ (Len(q) >= 2 /\ q[2].res = "ok" => found.type = "image")
        /\ (found.type = "container" => Len(q) = 1 /\ q[1].res = "ok")
        /\ (found.type = "image" => Len(q) = 2 /\ q[2].res = "ok")
        /\ (found.type = "volume" => Len(q) = 3 /\ q[3].res = "ok")
        /\ Len(Records) <= 1
        /\ \A i \in 1..Len(Records) : Records[i] = Record(found)

\* The image is output after the container was not found.
C1_Witness ==
    /\ cmd = "x" /\ exit = 0
    /\ found.type = "image"
    /\ Len(Records) = 1
    /\ OpsOf(Queries) = <<"InspectContainer", "InspectImage">>

\* The volumes of the list whose name starts with the argument
Matching == { i \in 1..Len(volumes) : HasPrefix(volumes[i].Name, arg) }

(* C2: once the volumes are listed, more than one name with the prefix     *)
(* gives the ambiguous-match message and no record (no pager either),       *)
(* exactly one gives that volume to the output, none gives the distinct     *)
(* nothing-matching message and no record.                                  *)
C2_VolumePrefix ==
    cmd = "x" /\ (\E i \in 1..Len(trace) : trace[i] = Query("ListVolumes", "ok")) =>
        /\ Cardinality(Matching) > 1 =>
              /\ AmbiguousLookup /\ ~Printed1(stderr, NothingMsg)
              /\ found = NoRecord /\ Records = <<>> /\ PagerOps = <<>>
              /\ pc = "exited"
        /\ Cardinality(Matching) = 1 =>
              /\ found.type = "volume"
              /\ \A i \in Matching : found.id = volumes[i].Name
              /\ ~AmbiguousLookup /\ ~Printed1(stderr, NothingMsg)
        /\ Cardinality(Matching) = 0 =>
              /\ Printed1(stderr, NothingMsg) /\ ~AmbiguousLookup
              /\ found = NoRecord /\ Records = <<>> /\ PagerOps = <<>>
              /\ pc = "exited"

\* Two volumes have the prefix, and one of them is named exactly so.
C2_Witness ==
    /\ cmd = "x" /\ pc = "exited"
    /\ Cardinality(Matching) > 1
    /\ \E i \in Matching : volumes[i].Name = arg
    /\ AmbiguousLookup

(* C3 as claimed: every usage error (unknown subcommand, wrong count of    *)
(* positional arguments, ambiguous examine lookup) ends the process with   *)
(* status 2, and an unknown subcommand prints the list of subcommands.      *)
C3_UsageErrorsExit2 ==
    exit # Running =>
        /\ (UnknownSubcommand \/ WrongArgCount \/ AmbiguousLookup => exit = 2)
        /\ (UnknownSubcommand => UsageListPrinted)

(* C3 as amended: an unknown subcommand and a wrong count of positional    *)
(* arguments print a message on standard output and end the process with   *)
(* status 2, which differs from the status 1 of a failed required query     *)
(* and from 0; for an unknown subcommand the message names the subcommand   *)
(* as unknown, and the list of subcommands is printed only when no          *)
(* argument is given, with status 0; an ambiguous examine lookup prints     *)
(* its message on standard error and ends with status 0.                    *)
C3_UsageErrors ==
    exit # Running =>
        /\ (UnknownSubcommand \/ WrongArgCount =>
               exit = 2 /\ Len(stdout) = 1 /\ Queries = <<>>)
        /\ (UnknownSubcommand => ~UsageListPrinted)
        /\ (UsageListPrinted => exit = 0 /\ stdout = [i \in 1..Len(UsageList) |-> Msg(UsageList[i])]
                                /\ Queries = <<>>)
        /\ (AmbiguousLookup => exit = 0 /\ stdout = <<>>)
        /\ (\E i \in 1..Len(trace) : RequiredFailure(trace[i])) => exit = 1

\* An unknown subcommand has ended the process.
C3_Witness == exit = 2 /\ UnknownSubcommand

-----------------------------------------------------------------------------
\* The step inspects the image of the current container of ps, and fails.
ImageInspectionFails ==
    /\ cmd = "ps" /\ pc = "ps:image"
    /\ Len(trace') > Len(trace)
    /\ trace'[Len(trace) + 1] = Query("InspectImage", "err")

\* The results of the image inspections of ps, in the order of the rows
ImageResults == SelectSeq(Queries, LAMBDA e : e.op = "InspectImage")

\* The table ps has flushed: ps has printed nothing else on standard output
Flushed == Len(stdout) = 1 /\ stdout[1].kind = "table"

(* C4: in ps a failed image inspection does not end the process: the step  *)
(* that fails completes the row with the age "?", adds one warning to      *)
(* standard error and goes on to the inspection of the next container, or  *)
(* to the flush after the last one; the flush ends the process with status *)
(* 0, and the table flushed has one row per container, whose image age is  *)
(* "?" exactly when that container's image inspection failed.              *)
C4_ImageFailureNotFatal ==
    [][ /\ ImageInspectionFails =>
            /\ exit' = Running
            /\ Len(w'.rows) = k /\ Last(Last(w'.rows)) = [col |-> "age", val |-> "?"]
            /\ stderr' = Append(stderr, [kind |-> "warning", text |-> "InspectImage"])
            /\ pc' = IF k < Len(containers) THEN "ps:inspect" ELSE "ps:flush"
            /\ k' = k + 1
        /\ (cmd = "ps" /\ pc = "ps:flush" => exit' = 0 /\ Flushed')
        /\ (cmd' = "ps" /\ exit' = 0 =>
               /\ Flushed' /\ Len(stdout'[1].rows) = Len(containers')
               /\ Len(ImageResults') = Len(containers')
               /\ \A i \in 1..Len(containers') :
                     (Last(stdout'[1].rows[i]).val = "?") <=> (ImageResults'[i].res = "err")
               /\ Len(SelectSeq(stderr', LAMBDA e : e.kind = "warning"))
                    = Len(SelectSeq(ImageResults', LAMBDA e : e.res = "err")))
      ]_vars

\* ps has ended with status 0 after the image inspection of the first of
\* two containers failed and that of the second succeeded.
C4_Witness ==
    /\ cmd = "ps" /\ exit = 0 /\ Flushed
    /\ Len(stdout[1].rows) = 2
    /\ Last(stdout[1].rows[1]).val = "?"
    /\ Last(stdout[1].rows[2]).val # "?"

\* The process ended in a panic raised by ips(c.Networks)[0]: the last
\* field the row got is the one before the address.
CrashedOnIP ==
    /\ cmd = "ps" /\ exit = 2 /\ Last(trace).op = "panic"
    /\ w.cur # <<>> /\ Last(w.cur).col = "up"

(* C5: ps renders the row of a container that has no network, with a       *)
(* placeholder for the address, and does not crash on it.                   *)
C5_NoCrashWithoutNetwork ==
    cmd = "ps" /\ k \in 1..Len(containers) /\ containers[k].Networks = {} => ~CrashedOnIP

(* C6: a failed required query (a list call, the inspection of a container *)
(* in ps, a lookup of examine that fails otherwise than by not-found) ends *)
(* the process at once with a status other than 0: it is the last query    *)
(* the process sends, so ps inspects no container after the k-th and       *)
(* examine probes no later kind.                                            *)
C6_RequiredFailureFatal ==
    \A i \in 1..Len(trace) :
        RequiredFailure(trace[i]) =>
            /\ i = Len(trace) - 1
            /\ Last(trace).ev = "exit"
            /\ pc = "exited" /\ exit # Running /\ exit # 0
            /\ cmd = "ps" /\ trace[i].op = "InspectContainer" =>
                  Len(SelectSeq(Queries, LAMBDA e : e.op = "InspectContainer")) = k

\* The inspection of the first of two containers failed.
C6_Witness ==
    /\ cmd = "ps" /\ pc = "exited" /\ exit = 1
    /\ Len(containers) = 2 /\ k = 1
    /\ OpsOf(Queries) = <<"ListContainers", "InspectContainer">>
    /\ Last(Queries).res = "err"

-----------------------------------------------------------------------------
Range(s) == { s[i] : i \in 1..Len(s) }
ColsOf(row) == [i \in 1..Len(row) |-> row[i].col]

\* The columns the claim lists, with the two optional ones as asked for
Columns(withAge, withCmd) ==
    <<"id", "name">> \o (IF withAge THEN <<"age">> ELSE <<>>)
    \o <<"up", "ip", "ports">> \o (IF withCmd THEN <<"cmd">> ELSE <<>>)
    \o <<"image", "age">>

\* The tables of ps: the one the tabwriter holds and the one printed
PsTables ==
    {[header |-> w.header, rows |-> w.rows]}
    \cup { [header |-> stdout[i].header, rows |-> stdout[i].rows] :
             i \in { j \in 1..Len(stdout) : stdout[j].kind = "table" } }

(* C8: in ps the header has the cmd column exactly when verbosity >= 1 or  *)
(* width >= 100 (the width being 999 when standard output is no terminal), *)
(* the container-age column exactly when verbosity >= 1, its columns are   *)
(* id, name, [age], up, ip, ports, [cmd], image, age in this order, and    *)
(* every row rendered has the columns of the header in the same order.     *)
C8_Columns ==
    cmd = "ps" /\ w.header # <<>> =>
        /\ (tty = "no" => width = 999)
        /\ \A tb \in PsTables :
              /\ tb.header = Columns(opts.psVerbose >= 1,
                                     opts.psVerbose >= 1 \/ width >= 100)
              /\ \A i \in 1..Len(tb.rows) : ColsOf(tb.rows[i]) = tb.header

\* A table printed at width 120 and verbosity 0, with a row and the cmd column.
C8_Witness ==
    /\ cmd = "ps" /\ exit = 0 /\ Flushed
    /\ tty = "yes" /\ width = 120 /\ opts.psVerbose = 0
    /\ Len(stdout[1].rows) >= 1
    /\ "cmd" \in Range(ColsOf(stdout[1].rows[1]))

(* C9: when examine has a record to output and standard output is a        *)
(* terminal, the pager is started, the dump written to it, its input       *)
(* closed, the pager waited for and the process ended, in this order, and  *)
(* nothing is printed on standard output; when standard output is no       *)
(* terminal, no pager is started and the dump is printed on standard       *)
(* output.                                                                  *)
C9_PagerOrder ==
    cmd = "x" /\ found # NoRecord /\ tty # "unread" =>
        LET p == PagerOps IN
        /\ tty = "no" =>
              p = <<>> /\ pagerIn = <<>> /\ stdout = <<Record(found)>> /\ exit = 0
        /\ tty = "yes" =>
              /\ stdout = <<>>
              /\ p # <<>>
              /\ IsPrefix(OpsOf(p), <<"start", "write", "close", "wait">>)
              /\ (Len(p) >= 2 => p[1].res = "ok")
              /\ (pagerIn # <<>> => pagerIn = <<Record(found)>> /\ Len(p) >= 2)
              /\ (exit # Running /\ p[1].res = "ok" =>
                     /\ OpsOf(p) = <<"start", "write", "close", "wait">>
                     /\ OpsOf(SubSeq(trace, Len(trace) - 4, Len(trace)))
                          = <<"start", "write", "close", "wait", Last(trace).op>>
                     /\ Last(trace).ev = "exit")

\* The process has ended after the pager got the dump and was waited for.
C9_Witness ==
    /\ cmd = "x" /\ exit = 0 /\ tty = "yes"
    /\ OpsOf(PagerOps) = <<"start", "write", "close", "wait">>
    /\ pagerIn = <<Record(found)>>

-----------------------------------------------------------------------------
\* Elapsed time since t, as the label shows it
Elapsed(t) == prettyDuration(Since(t))

\* "finished": not running, or restarting
Finished(st) == ~st.Running \/ st.Restarting

\* The label of rules (4) and (5) of the claim
C7_Rules45(st) ==
    IF ~st.Running
    THEN "exit(" \o ToString(st.ExitCode) \o ")" \o Elapsed(st.FinishedAt)
    ELSE IF st.Restarting
    THEN "restart(" \o ToString(st.ExitCode) \o ")" \o Elapsed(st.FinishedAt)
    ELSE Elapsed(st.StartedAt) \o (IF st.Paused THEN "Paused" ELSE "")

(* C7 as claimed: for every combination of the flags and of zero or        *)
(* non-zero StartedAt and FinishedAt, state() returns the label of the     *)
(* first rule that matches: dead if Dead; created if StartedAt is zero;    *)
(* FinishedAt==0 if finished with a zero FinishedAt; exit(code) or         *)
(* restart(code) and the time since FinishedAt; else the time since        *)
(* StartedAt, with Paused appended exactly when Paused is set.             *)
C7_PriorityAllCombinations ==
    call.fn = "state" =>
        call.out = (LET st == call.in IN
                    IF st.Dead THEN "dead"
                    ELSE IF IsZero(st.StartedAt) THEN "created"
                    ELSE IF Finished(st) /\ IsZero(st.FinishedAt) THEN "FinishedAt==0"
                    ELSE C7_Rules45(st))

(* C7 as amended: rules (1) dead and (2) created apply, like rule (3),     *)
(* only to a container that is finished (not running, or restarting); a    *)
(* container that is running and not restarting gets rule (5), the time    *)
(* since StartedAt with the Paused suffix, whatever Dead and StartedAt     *)
(* are.                                                                     *)
C7_PriorityWhenFinished ==
    call.fn = "state" =>
        call.out = (LET st == call.in IN
                    IF Finished(st) /\ st.Dead THEN "dead"
                    ELSE IF Finished(st) /\ IsZero(st.StartedAt) THEN "created"
                    ELSE IF Finished(st) /\ IsZero(st.FinishedAt) THEN "FinishedAt==0"
                    ELSE C7_Rules45(st))

\* state() called for a container that is running, paused and marked dead.
C7_Witness ==
    /\ call.fn = "state"
    /\ call.in.Running /\ ~call.in.Restarting /\ call.in.Dead /\ call.in.Paused
    /\ call.in.StartedAt = 5 * TicksPerSecond
    /\ call.out = "5sPaused"

\* The bucket of the claim's table for s whole seconds
C10_Bucket(s) ==
    LET days == s \div 86400 IN
    IF s < 1 THEN "now"
    ELSE IF s < 60 THEN ToString(s) \o "s"
    ELSE IF s < 3600 THEN ToString(s \div 60) \o "m"
    ELSE IF s < 2 * 86400 THEN ToString(s \div 3600) \o "h"
    ELSE IF s < 14 * 86400 THEN ToString(days) \o "d"
    ELSE IF s < 60 * 86400 THEN ToString(days \div 7) \o "w"
    ELSE IF s < 730 * 86400 THEN ToString(days \div 30) \o "M"
    ELSE ToString(days \div 365) \o "y"

C11_Rounded(b, e) ==
    LET t == TimesTen(b, 1, 0)
        q == t[e + 1] + (IF e + 2 <= Len(t) THEN unit * t[e + 2] ELSE 0)
        rest == \E i \in 1..(e - 1) : t[i] # 0
    IN IF t[e] > unit \div 2 \/ (t[e] = unit \div 2 /\ rest) THEN {q + 1}
       ELSE IF t[e] = unit \div 2 THEN {q, q + 1}
       ELSE {q}

\* What the claim lets prettySize return for the count b: e is the largest
\* exponent with unit^e <= b.
C11_Claimed(b) ==
    IF Top(b) = 0 THEN {ToString(b[1])}
    ELSE { ToString(t \div 10) \o "." \o ToString(t % 10) \o Units[Top(b)] \o "B" :
             t \in C11_Rounded(b, Top(b)) }

(* C11: for every byte count b from 0 to 2^63 - 1, prettySize returns the  *)
(* decimal b when b < 1024, and otherwise b / 1024^e rounded to one        *)
(* decimal place, the e-th letter of kMGTPE and B, where e is the largest  *)
(* integer with 1024^e <= b; 0 gives 0, 1023 1023, 1024 1.0kB and 1536     *)
(* 1.5kB.                                                                   *)
C11_SizeFormat ==
    call.fn = "prettySize" =>
        /\ call.out \in C11_Claimed(call.in)
        /\ call.in = Int64(0) => call.out = "0"
        /\ call.in = Int64(1023) => call.out = "1023"
        /\ call.in = Int64(1024) => call.out = "1.0kB"
        /\ call.in = Int64(1536) => call.out = "1.5kB"

Shorteners == {"shorten", "shortenMiddle"}

(* C12: for every string s and every l, if s has at most l characters     *)
(* (code points, not bytes), shorten(s, l) and shortenMiddle(s, l) return  *)
(* s unchanged.  Read with the newlines of s replaced by the placeholder   *)
(* glyph, as the shorteners always do.                                     *)
C12_ShortUnchanged ==
    (call.fn \in Shorteners /\ Len(call.in.s) <= call.in.l)
        => call.out = Ok(ReplaceNewlines(call.in.s))

(* C13: both shorteners are idempotent: for every s and l >= 1, applying   *)
(* the shortener with the same l to its own result returns that result,    *)
(* and the second application does not crash.                              *)
C13_Idempotent ==
    (call.fn \in Shorteners /\ call.in.again /\ call.in.l >= 1)
        => call.out = Ok(call.in.s)

(* C14: for every string s, multi-byte characters included, and every      *)
(* l >= 1 below the character count of s, shortenMiddle(s, l) is the first *)
(* ceil((l-1)/2) characters of s, one ellipsis and the last                *)
(* floor((l-1)/2) characters of s: l characters, and no crash.  Read with  *)
(* the newlines replaced by the placeholder glyph.                         *)
C14_MiddleEllipsis ==
    (call.fn = "shortenMiddle" /\ call.in.l >= 1 /\ Len(call.in.s) > call.in.l)
        => LET s == call.in.s
               l == call.in.l
               tail == (l - 1) \div 2
               head == (l - 1) - tail
           IN /\ call.out = Ok(ReplaceNewlines(SubSeq(s, 1, head) \o <<ELLIPSIS>>
                                               \o SubSeq(s, Len(s) - tail + 1, Len(s))))
              /\ Len(call.out.s) = l

(* C15 as stated: for every string s and every l >= 1 below the character  *)
(* count of s, shorten(s, l) is the first l - 1 characters of s followed   *)
(* by one ellipsis: l characters, and no crash.                            *)
C15_EndEllipsisVerbatim ==
    (call.fn = "shorten" /\ call.in.l >= 1 /\ Len(call.in.s) > call.in.l)
        => /\ call.out = Ok(SubSeq(call.in.s, 1, call.in.l - 1) \o <<ELLIPSIS>>)
           /\ Len(call.out.s) = call.in.l

(* C15 as amended: for every string s and every l >= 1 below the character *)
(* count of s, shorten(s, l) is the first l - 1 characters of s, each      *)
(* newline among them replaced by the placeholder glyph, followed by one   *)
(* ellipsis: l characters, and no crash.                                   *)
C15_EndEllipsis ==
    (call.fn = "shorten" /\ call.in.l >= 1 /\ Len(call.in.s) > call.in.l)
        => /\ call.out = Ok(ReplaceNewlines(SubSeq(call.in.s, 1, call.in.l - 1))
                            \o <<ELLIPSIS>>)
           /\ Len(call.out.s) = call.in.l

\* shorten called with e acute, newline, a, b and l = 3: two characters of
\* four bytes are kept, the newline as its glyph.
C15_Witness ==
    /\ call.fn = "shorten"
    /\ call.in = [s |-> <<233, NEWLINE, 97, 98>>, l |-> 3, again |-> FALSE]
    /\ call.out = Ok(<<233, NLGLYPH, ELLIPSIS>>)

\* The token of one binding: the address as it is given (C16 as stated) or
\* in square brackets when it holds a colon (C16 as amended).
C16_Token(p, verbose, address) ==
    LET internal == ToString(p.PrivatePort)
                    \o (IF p.Type = "tcp" THEN "" ELSE "/" \o p.Type)
        published == ToString(p.PublicPort) \o "->" \o internal
    IN IF p.IP = "" THEN internal
       ELSE IF verbose >= 1 THEN address \o ":" \o published
       ELSE published

RECURSIVE C16_Join(_)
C16_Join(tokens) ==
    IF tokens = <<>> THEN ""
    ELSE IF Len(tokens) = 1 THEN tokens[1]
    ELSE tokens[1] \o "," \o C16_Join(Tail(tokens))

\* The tokens without those equal to an earlier one, in the input order
C16_FirstOccurrences(tokens) ==
    LET keep == { i \in 1..Len(tokens) : \A j \in 1..(i - 1) : tokens[j] # tokens[i] }
        nth(n) == CHOOSE i \in keep : Cardinality({ j \in keep : j < i }) = n - 1
    IN [n \in 1..Cardinality(keep) |-> tokens[nth(n)]]

(* C16 as stated: for every list of port bindings and either verbosity,    *)
(* ports() is the comma-join of the bindings' tokens without those equal   *)
(* to an earlier token, in the input order; the token is                   *)
(* published->internal when the binding has a published port and a bind    *)
(* address, address:published->internal in verbose mode, the internal port *)
(* otherwise, with the transport type as a tag unless it is tcp.           *)
C16_PortsVerbatim ==
    call.fn = "ports" =>
        call.out = C16_Join(C16_FirstOccurrences(
                       [i \in 1..Len(call.in.ports) |->
                           C16_Token(call.in.ports[i], call.in.verbose,
                                     call.in.ports[i].IP)]))

(* C16 as amended: as stated, but in verbose mode a bind address that      *)
(* holds a colon (an IPv6 address) is put in square brackets:              *)
(* [address]:published->internal.                                          *)
C16_Ports ==
    call.fn = "ports" =>
        call.out = C16_Join(C16_FirstOccurrences(
                       [i \in 1..Len(call.in.ports) |->
                           C16_Token(call.in.ports[i], call.in.verbose,
                                     IF call.in.ports[i].IP = "::" THEN "[::]"
                                     ELSE call.in.ports[i].IP)]))

\* ports() in verbose mode for a port published on the IPv4 and on the
\* IPv6 wildcard address, the first binding given twice, and an exposed udp
\* port.
C16_Witness ==
    /\ call.fn = "ports"
    /\ call.in.verbose = 1
    /\ call.in.ports =
         << [PrivatePort |-> 80, PublicPort |-> 8080, Type |-> "tcp", IP |-> "0.0.0.0"],
            [PrivatePort |-> 80, PublicPort |-> 8080, Type |-> "tcp", IP |-> "::"],
            [PrivatePort |-> 80, PublicPort |-> 8080, Type |-> "tcp", IP |-> "0.0.0.0"] >>
    /\ call.out = "0.0.0.0:8080->80,[::]:8080->80"

\* The rows of ps, those printed, those the tabwriter holds and the one
\* being rendered
C17_Rows ==
    UNION { Range(tb.rows) : tb \in PsTables } \cup {w.cur}

(* C17: in every row rendered by ps, at verbosity 0, 1 and 2 and every     *)
(* width, the name, command and image fields hold no raw newline           *)
(* character, whether or not the value was truncated.                      *)
C17_NoRawNewline ==
    cmd = "ps" =>
        \A row \in C17_Rows : \A i \in 1..Len(row) :
            row[i].col \in {"name", "cmd", "image"} => NEWLINE \notin Range(row[i].val)

=============================================================================
